---------------------------- MODULE Spec2Model ----------------------------
(***************************************************************************)
(* Scene identification (identify, identify_many, the five format         *)
(* handlers) and the spatialite scene catalog (Archive) of pyroSAR.py.    *)
(*                                                                         *)
(* A scene on disk is abstracted by the facts the handlers branch on: the *)
(* naming convention its files follow, how many archive members match the *)
(* handler's pattern, whether the product id marks a level-0 product, the *)
(* kind of defect of its metadata, and the metadata values themselves.    *)
(* Text values are sequences of one-character strings; a time stamp is    *)
(* the index of its YYYYmmddTHHMMSS string in the ordered table Stamps    *)
(* (SQL compares the TEXT columns start and stop lexicographically, which *)
(* for these strings is the order of the indices).                        *)
(***************************************************************************)
EXTENDS Integers, Sequences, FiniteSets, TLC

(* longest scene list handed to identify_many / insert *)
MaxList == 2

-----------------------------------------------------------------------------
(* Values *)

NoErr == [type |-> "none", msg |-> "none"]

Err(t, m) == [type |-> t, msg |-> m]

(* ID.__subclasses__(): the handler classes in definition order *)
Handlers == <<"CEOS_ERS", "CEOS_PSR", "ESA", "SAFE", "TSX">>

(* the canonical time stamps of the modelled scenes, in increasing order *)
Stamps == <<"20191231T235959", "20200101T000000", "20200115T120000",
            "20200201T000000", "20200201T000001">>

Times == 1..Len(Stamps)

-----------------------------------------------------------------------------
(* The scenes on disk *)

Path(d, b) == [dir |-> d, base |-> b]

(* os.path.basename *)
basename(p) == p.base

Content(fmt, members, level0, defect, sensor, mode, orbit, start, stop, product, pols, cells, corners) ==
    [fmt |-> fmt, members |-> members, level0 |-> level0, defect |-> defect,
     sensor |-> sensor, acquisition_mode |-> mode, orbit |-> orbit, start |-> start,
     stop |-> stop, product |-> product, polarizations |-> pols, cells |-> cells,
     corners |-> corners, samples |-> 2, lines |-> 3, projection |-> "WGS 84",
     spacing |-> <<10, 10>>]

S1A_a == Content("SAFE", 1, FALSE, "none", <<"S", "1", "A">>, <<"I", "W">>, "A", 2, 3,
                 "GRD", <<"VV", "VH">>, {1}, TRUE)

(* the same acquisition, delivered a second time under another product name *)
S1A_a_r == Content("SAFE", 1, FALSE, "none", <<"S", "1", "A">>, <<"I", "W">>, "A", 2, 3,
                   "SLC", <<"VV">>, {1}, TRUE)

S1A_b == Content("SAFE", 1, FALSE, "none", <<"S", "1", "A">>, <<"I", "W">>, "A", 3, 4,
                 "GRD", <<"VV">>, {2}, TRUE)

S1B_bad == Content("SAFE", 1, FALSE, "nonode", <<"S", "1", "B">>, <<"I", "W">>, "D", 1, 2,
                   "GRD", <<"VV">>, {1}, TRUE)

TSX_x == Content("TSX", 1, FALSE, "none", <<"T", "S", "X", "1">>, <<"H", "S", "3", "0", "0">>,
                 "D", 1, 2, "MGD", <<"HH">>, {1, 2}, TRUE)

ASA_ims == Content("ESA", 1, FALSE, "none", <<"A", "S", "A", "R">>, <<"I", "M", "S">>, "D", 4, 5,
                   "SLC", <<"VV">>, {2}, TRUE)

ASA_im0 == Content("ESA", 1, TRUE, "none", <<"A", "S", "A", "R">>, <<"I", "M", "_">>, "D", 1, 1,
                   "PRI", <<"VV">>, {1}, TRUE)

(* an ASAR product whose header has no MPH_SENSING_START entry *)
ASA_nokey == Content("ESA", 1, FALSE, "nokey", <<"A", "S", "A", "R">>, <<"A", "P", "P">>, "A", 2, 3,
                     "PRI", <<"HH">>, {1}, TRUE)

(* a PALSAR scene without IMG files: no polarizations, no corner coordinates *)
PSR_noimg == Content("CEOS_PSR", 1, FALSE, "none", <<"P", "S", "R", "1">>, <<"P", "H">>, "A", 5, 5,
                     "1.5", <<>>, {}, FALSE)

PSR_ok == Content("CEOS_PSR", 1, FALSE, "none", <<"P", "S", "R", "2">>, <<"F", "B", "D">>, "A", 1, 1,
                  "1.5", <<"HH", "HV">>, {1}, TRUE)

(* another PALSAR scene, in a folder of the same name *)
PSR_b == Content("CEOS_PSR", 1, FALSE, "none", <<"P", "S", "R", "2">>, <<"F", "B", "D">>, "D", 3, 3,
                 "1.5", <<"HH">>, {2}, TRUE)

Other == Content("none", 0, FALSE, "none", <<>>, <<>>, "A", 1, 1, "none", <<>>, {}, FALSE)

Paths == {Path("d1", "S1A_a.SAFE"), Path("d2", "S1A_a.SAFE"), Path("d1", "S1A_a_r.SAFE"),
          Path("d1", "S1A_b.SAFE"), Path("d1", "S1B_bad.SAFE"), Path("d1", "TSX1_x.xml"),
          Path("d1", "ASA_IMS.N1"), Path("d1", "ASA_IM__0.N1"), Path("d1", "notes.txt"),
          Path("d1", "alos"), Path("d2", "alos"), Path("d1", "ASA_APP.N1"),
          Path("d3", "alos")}

(* what is stored at a path *)
FS(p) ==
    CASE p.base = "S1A_a.SAFE" -> S1A_a
      [] p.base = "S1A_a_r.SAFE" -> S1A_a_r
      [] p.base = "S1A_b.SAFE" -> S1A_b
      [] p.base = "S1B_bad.SAFE" -> S1B_bad
      [] p.base = "TSX1_x.xml" -> TSX_x
      [] p.base = "ASA_IMS.N1" -> ASA_ims
      [] p.base = "ASA_IM__0.N1" -> ASA_im0
      [] p.base = "ASA_APP.N1" -> ASA_nokey
      [] p.base = "alos" /\ p.dir = "d1" -> PSR_noimg
      [] p.base = "alos" /\ p.dir = "d2" -> PSR_ok
      [] p.base = "alos" /\ p.dir = "d3" -> PSR_b
      [] OTHER -> Other

-----------------------------------------------------------------------------
(* Format handlers *)

(* The file name patterns of CEOS_ERS and ESA accept the same product     *)
(* names; every other pattern accepts the names of its own format only.   *)
PatternMatches(h, fmt) ==
    \/ h = fmt
    \/ h \in {"CEOS_ERS", "ESA"} /\ fmt \in {"CEOS_ERS", "ESA"}

(* ID.examine: exactly one matching archive member, or IOError *)
examine(h, s) ==
    LET n == IF PatternMatches(h, s.fmt) THEN s.members ELSE 0
    IN  IF n = 1 THEN NoErr
        ELSE IF n = 0 THEN Err("IOError", "naming convention")
        ELSE Err("IOError", "file ambiguity")

(* the exception a defective metadata field raises while it is parsed *)
ParseError(defect) ==
    CASE defect = "nokey" -> Err("KeyError", "field")
      [] defect = "nonode" -> Err("AttributeError", "field")
      [] defect = "badnum" -> Err("ValueError", "field")
      [] defect = "baddate" -> Err("ValueError", "field")
      [] defect = "reclen" -> Err("struct.error", "field")
      [] defect = "nostamp" -> Err("IndexError", "field")
      [] OTHER -> NoErr

(* __LOCAL__, self.locals: the canonical attributes *)
Locals == {"sensor", "projection", "orbit", "polarizations", "acquisition_mode", "start", "stop",
          "product", "spacing", "samples", "lines"}

(* an ID.__init__ that takes stop for start and start for stop *)
MakeID_swapped(p, h, s) ==
    [scene |-> p, handler |-> h, sensor |-> s.sensor, acquisition_mode |-> s.acquisition_mode,
     orbit |-> s.orbit, start |-> s.stop, stop |-> s.start, product |-> s.product,
     polarizations |-> s.polarizations, samples |-> s.samples, lines |-> s.lines,
     projection |-> s.projection, spacing |-> s.spacing,
     cells |-> s.cells, corners |-> s.corners]

(* ID.__init__: the canonical attributes of the record *)
MakeID(p, h, s) ==
    [scene |-> p, handler |-> h, sensor |-> s.sensor, acquisition_mode |-> s.acquisition_mode,
     orbit |-> s.orbit, start |-> s.start, stop |-> s.stop, product |-> s.product,
     polarizations |-> s.polarizations, samples |-> s.samples, lines |-> s.lines,
     projection |-> s.projection, spacing |-> s.spacing,
     cells |-> s.cells, corners |-> s.corners]

(* handler(scene): the constructor of handler class h on the scene at p.  *)
(* The level-0 rejection of CEOS_ERS and ESA is an IOError.               *)
Construct(h, p) ==
    LET s == FS(p)
        e == examine(h, s)
    IN  IF e # NoErr THEN [err |-> e]
        ELSE IF h \in {"CEOS_ERS", "ESA"} /\ s.level0
             THEN [err |-> Err("IOError", "product level 0 not supported (yet)")]
        ELSE IF h # s.fmt THEN [err |-> Err("KeyError", "field")]
        ELSE IF ParseError(s.defect) # NoErr THEN [err |-> ParseError(s.defect)]
        ELSE [err |-> NoErr, id |-> MakeID(p, h, s)]

(* the exceptions identify catches *)
Caught == {"IOError", "KeyError"}

RECURSIVE identifyFrom(_, _)
identifyFrom(i, p) ==
    IF i > Len(Handlers) THEN [err |-> Err("IOError", "data format not supported")]
    ELSE LET r == Construct(Handlers[i], p)
         IN  IF r.err = NoErr THEN r
             ELSE IF r.err.type \in Caught THEN identifyFrom(i + 1, p)
             ELSE r

identify(p) == identifyFrom(1, p)

(* identify_many: ID objects are taken as they are, paths are identified; *)
(* only an IOError of identify is skipped.                                *)
(* identify_many without its except clause *)
Skipped_nothing == {}

(* the exception identify_many catches *)
Skipped == {"IOError"}

RECURSIVE identify_many_from(_, _, _)
identify_many_from(i, scenes, idlist) ==
    IF i > Len(scenes) THEN [err |-> NoErr, out |-> idlist]
    ELSE IF scenes[i].kind = "ID"
         THEN identify_many_from(i + 1, scenes, Append(idlist, scenes[i].id))
    ELSE LET r == identify(scenes[i].path)
         IN  IF r.err = NoErr THEN identify_many_from(i + 1, scenes, Append(idlist, r.id))
             ELSE IF r.err.type \in Skipped THEN identify_many_from(i + 1, scenes, idlist)
             ELSE [err |-> r.err, out |-> <<>>]

identify_many(scenes) == identify_many_from(1, scenes, <<>>)

-----------------------------------------------------------------------------
(* Archive: the data table *)

(* '{:_<4}'.format(x): x padded on the right with '_' to at least 4 characters *)
RECURSIVE Pad4(_)
Pad4(x) == IF Len(x) >= 4 THEN x ELSE Pad4(Append(x, "_"))

(* '_'.join(fields) *)
RECURSIVE Join(_)
Join(fields) ==
    IF Len(fields) = 0 THEN <<>>
    ELSE IF Len(fields) = 1 THEN fields[1]
    ELSE fields[1] \o <<"_">> \o Join(Tail(fields))

(* an outname_base that also names the product type *)
outname_base_product(id) ==
    Join(<<Pad4(id.sensor), Pad4(id.acquisition_mode), <<id.orbit>>, <<Stamps[id.start]>>,
           <<id.product>>>>)

(* an outname_base that cuts sensor and mode to four characters *)
outname_base_cut(id) ==
    Join(<<SubSeq(Pad4(id.sensor), 1, 4), SubSeq(Pad4(id.acquisition_mode), 1, 4),
           <<id.orbit>>, <<Stamps[id.start]>>>>)

(* ID.outname_base *)
outname_base(id) ==
    Join(<<Pad4(id.sensor), Pad4(id.acquisition_mode), <<id.orbit>>, <<Stamps[id.start]>>>>)

(* str.lower on a polarization code *)
Lower(pol) ==
    CASE pol = "HH" -> "hh"
      [] pol = "VV" -> "vv"
      [] pol = "HV" -> "hv"
      [] pol = "VH" -> "vh"
      [] OTHER -> pol

Elems(seq) == {seq[i] : i \in 1..Len(seq)}

(* an int(attribute in id.polarizations), without the conversion to lower case *)
Flag_as_written(attribute, id) == IF attribute \in Elems(id.polarizations) THEN 1 ELSE 0

(* int(attribute in pols) *)
Flag(attribute, id) == IF attribute \in {Lower(x) : x \in Elems(id.polarizations)} THEN 1 ELSE 0

(* Archive.__prepare_insertion: the values of one row; the bounding box   *)
(* needs the corner coordinates of the scene.                             *)
prepare_insertion(id) ==
    IF ~id.corners THEN [err |-> Err("IndexError", "corners")]
    ELSE [err |-> NoErr,
          row |-> [sensor |-> id.sensor, orbit |-> id.orbit,
                   acquisition_mode |-> id.acquisition_mode, start |-> id.start,
                   stop |-> id.stop, product |-> id.product, samples |-> id.samples,
                   lines |-> id.lines, outname_base |-> outname_base(id), scene |-> id.scene,
                   hh |-> Flag("hh", id), vv |-> Flag("vv", id), hv |-> Flag("hv", id),
                   vh |-> Flag("vh", id), bbox |-> id.cells]]

UniqueMsg == "UNIQUE constraint failed: data.outname_base"

(* an INSERT OR REPLACE: the row of a registered name is overwritten *)
execute_insert_replace(tbl, row) ==
    IF \E i \in 1..Len(tbl) : tbl[i].outname_base = row.outname_base
    THEN [err |-> NoErr,
          rows |-> [i \in 1..Len(tbl) |->
                       IF tbl[i].outname_base = row.outname_base THEN row ELSE tbl[i]]]
    ELSE [err |-> NoErr, rows |-> Append(tbl, row)]

(* an INSERT into a table that has no PRIMARY KEY *)
execute_insert_nokey(tbl, row) == [err |-> NoErr, rows |-> Append(tbl, row)]

(* INSERT INTO data: outname_base is the PRIMARY KEY of the table *)
execute_insert(tbl, row) ==
    IF \E i \in 1..Len(tbl) : tbl[i].outname_base = row.outname_base
    THEN [err |-> Err("IntegrityError", UniqueMsg), rows |-> tbl]
    ELSE [err |-> NoErr, rows |-> Append(tbl, row)]

(* an insert loop that never commits *)
commit_never(db) == db

(* conn.commit() *)
commit(db) == [rows |-> db.rows, disk |-> db.rows]

(* the SELECT without its WHERE clause *)
registered_scene_any(tbl, name) == tbl[1].scene

(* SELECT scene FROM data WHERE outname_base=? ; fetchone()[0] *)
registered_scene(tbl, name) ==
    LET i == CHOOSE i \in 1..Len(tbl) : tbl[i].outname_base = name
    IN  tbl[i].scene

(* the loop of Archive.insert over the identified scenes; done is the     *)
(* value of the progress bar, found the scenes fetched for duplicates     *)
RECURSIVE insert_loop(_, _, _, _)

(* the body of that loop for scene i, once its row is prepared; a value   *)
(* named by v \in {e} is computed once, where it is bound                 *)
insert_step(i, scenes, db, found, prep) ==
    IF prep.err # NoErr
    THEN [err |-> prep.err, rows |-> db.rows, disk |-> db.disk, found |-> found, done |-> i - 1]
    ELSE CHOOSE out \in
           {IF ex.err = NoErr
            THEN insert_loop(i + 1, scenes, commit([rows |-> ex.rows, disk |-> db.disk]), found)
            ELSE IF ex.err.msg = UniqueMsg
            THEN insert_loop(i + 1, scenes, db,
                             Append(found, registered_scene(db.rows, prep.row.outname_base)))
            ELSE [err |-> ex.err, rows |-> db.rows, disk |-> db.disk, found |-> found,
                  done |-> i - 1] : ex \in {execute_insert(db.rows, prep.row)}} : TRUE

insert_loop(i, scenes, db, found) ==
    IF i > Len(scenes)
    THEN [err |-> NoErr, rows |-> db.rows, disk |-> db.disk, found |-> found, done |-> i - 1]
    ELSE CHOOSE out \in {insert_step(i, s, d, f, prep) :
                           s \in {scenes}, d \in {db}, f \in {found},
                           prep \in {prepare_insertion(scenes[i])}} : TRUE

(* Archive.filter_scenelist: the elements whose basename is not that of a *)
(* registered scene; os.path.basename fails on an ID object.              *)
RECURSIVE filter_from(_, _, _, _)
filter_from(i, scenelist, registered, out) ==
    IF i > Len(scenelist) THEN [err |-> NoErr, out |-> out]
    ELSE IF scenelist[i].kind # "str" THEN [err |-> Err("AttributeError", "basename"), out |-> <<>>]
    ELSE filter_from(i + 1, scenelist, registered,
                     IF basename(scenelist[i].path) \in registered THEN out
                     ELSE Append(out, scenelist[i]))

(* a filter that keeps the registered paths instead of the others *)
filter_registered(tbl, scenelist) ==
    LET Keep(x) == x.kind = "str" /\ basename(x.path) \in {basename(tbl[i].scene) : i \in 1..Len(tbl)}
    IN  [err |-> NoErr, out |-> SelectSeq(scenelist, Keep)]

(* a filter that finds no scene registered *)
filter_nothing(tbl, scenelist) == filter_from(1, scenelist, {}, <<>>)

(* a filter that also drops the later scenes that have the file name of   *)
(* the first scene it keeps                                               *)
filter_namesakes(tbl, scenelist) ==
    LET r == filter_from(1, scenelist, {basename(tbl[i].scene) : i \in 1..Len(tbl)}, <<>>)
        Other1(x) == basename(x.path) # basename(r.out[1].path)
    IN  IF r.err # NoErr \/ r.out = <<>> THEN r
        ELSE [err |-> NoErr, out |-> <<r.out[1]>> \o SelectSeq(Tail(r.out), Other1)]

filter_scenelist(tbl, scenelist) ==
    filter_from(1, scenelist, {basename(tbl[i].scene) : i \in 1..Len(tbl)}, <<>>)

(* Archive.size: the row count of the data table *)
size(tbl) == Len(tbl)

(* the first part of Archive.insert: the list of ID objects to insert *)
insert_scenes(tbl, scene_in) ==
    IF scene_in.kind = "ID" THEN [err |-> NoErr, out |-> <<scene_in.id>>]
    ELSE IF scene_in.kind = "str"
    THEN LET r == identify(scene_in.path)
         IN  IF r.err = NoErr THEN [err |-> NoErr, out |-> <<r.id>>]
             ELSE [err |-> r.err, out |-> <<>>]
    ELSE IF scene_in.kind = "list"
    THEN LET f == filter_scenelist(tbl, scene_in.list)
         IN  IF f.err # NoErr THEN f ELSE identify_many(f.out)
    ELSE [err |-> Err("RuntimeError", "scene_in"), out |-> <<>>]

(* Archive.insert *)
insert(db, scene_in) ==
    CHOOSE out \in
      {IF s.err # NoErr
       THEN [err |-> s.err, rows |-> db.rows, disk |-> db.disk, found |-> <<>>, done |-> 0]
       ELSE insert_loop(1, s.out, db, <<>>) : s \in {insert_scenes(db.rows, scene_in)}} : TRUE

-----------------------------------------------------------------------------
(* Archive.__init__, Archive.close *)

(* a database file that does not exist yet *)
NoFile == [tables |-> {}, columns |-> {}, rows |-> <<>>]

(* the keys of self.lookup: the columns of CREATE TABLE data *)
Lookup == {"sensor", "orbit", "acquisition_mode", "start", "stop", "product", "samples",
           "lines", "outname_base", "scene", "hh", "vv", "hv", "vh"}

(* SELECT InitSpatialMetaData() unless spatial_ref_sys is a table *)
init_spatial_metadata(file) ==
    IF "spatial_ref_sys" \notin file.tables
    THEN [file EXCEPT !.tables = @ \cup {"spatial_ref_sys", "geometry_columns"}]
    ELSE file

(* a CREATE TABLE that replaces the table it finds *)
create_table_anew(file) ==
    [file EXCEPT !.tables = @ \cup {"data"}, !.columns = Lookup, !.rows = <<>>]

(* CREATE TABLE if not exists data *)
create_table(file) ==
    IF "data" \in file.tables THEN file
    ELSE [file EXCEPT !.tables = @ \cup {"data"}, !.columns = Lookup, !.rows = <<>>]

(* AddGeometryColumn unless bbox is a column of data *)
add_geometry_column(file) ==
    IF "bbox" \notin file.columns THEN [file EXCEPT !.columns = @ \cup {"bbox"}]
    ELSE file

(* Archive.__init__ on a database file *)
archive_init(file) == add_geometry_column(create_table(init_spatial_metadata(file)))

(* sqlite3 on a connection that was closed *)
ClosedErr == Err("ProgrammingError", "Cannot operate on a closed database.")

(* an insert that works on a closed connection as on an open one *)
closed_insert_reconnects(db, scene_in) == insert(db, scene_in)

(* Archive.insert on a closed connection: the first statement that uses   *)
(* the connection raises; identify runs before it for a path              *)
closed_insert(db, scene_in) ==
    LET e == IF scene_in.kind = "ID" THEN ClosedErr
             ELSE IF scene_in.kind = "str"
             THEN (IF identify(scene_in.path).err # NoErr THEN identify(scene_in.path).err
                   ELSE ClosedErr)
             ELSE IF scene_in.kind = "list" THEN ClosedErr
             ELSE Err("RuntimeError", "scene_in")
    IN  [err |-> e, rows |-> db.rows, disk |-> db.disk, found |-> <<>>, done |-> 0]

-----------------------------------------------------------------------------
(* Archive.select *)

(* Archive.get_colnames *)
ColNames == {"sensor", "orbit", "acquisition_mode", "start", "stop", "product", "samples",
             "lines", "outname_base", "scene", "hh", "vv", "hv", "vh", "bbox"}

None == [kind |-> "none"]

(* the conditions select appends to arg_format for the column arguments:  *)
(* equality for a number or string, IN for a tuple or list, nothing for   *)
(* any other type and for a key that is no column                         *)
RECURSIVE column_conditions(_)
column_conditions(args) ==
    IF args = <<>> THEN <<>>
    ELSE LET a == Head(args)
             c == IF a.key \notin ColNames THEN <<>>
                  ELSE IF a.val.kind = "scalar" THEN <<[kind |-> "eq", col |-> a.key, v |-> a.val.v]>>
                  ELSE IF a.val.kind = "list" THEN <<[kind |-> "in", col |-> a.key, vs |-> a.val.vs]>>
                  ELSE <<>>
         IN  c \o column_conditions(Tail(args))

(* a date argument is used if it is given and matches [0-9]{8}T[0-9]{6} *)
date_conditions(mindate, maxdate) ==
    (IF mindate.kind = "date" THEN <<[kind |-> "start>=", t |-> mindate.t]>> ELSE <<>>)
        \o (IF maxdate.kind = "date" THEN <<[kind |-> "stop<=", t |-> maxdate.t]>> ELSE <<>>)

RECURSIVE polarization_conditions(_)
polarization_conditions(pols) ==
    IF pols = <<>> THEN <<>>
    ELSE (IF Head(pols) \in {"HH", "VV", "HV", "VH"}
          THEN <<[kind |-> "flag", col |-> Lower(Head(pols))]>> ELSE <<>>)
             \o polarization_conditions(Tail(pols))

(* a vectorobject is used if it is a spatial.vector.Vector *)
vector_conditions(vectorobject) ==
    IF vectorobject.kind = "vector" THEN <<[kind |-> "st_intersects", cells |-> vectorobject.cells]>>
    ELSE <<>>

(* arg_format *)
arg_format(a) ==
    column_conditions(a.args) \o date_conditions(a.mindate, a.maxdate)
        \o polarization_conditions(a.polarizations) \o vector_conditions(a.vectorobject)

(* start>=? *)
start_ge(row, t) == row.start >= t

(* a bound that leaves out the scenes that stop at maxdate *)
stop_lt(row, t) == row.stop < t

(* stop<=? *)
stop_le(row, t) == row.stop <= t

(* one condition of the WHERE clause on one row *)
holds(c, row) ==
    CASE c.kind = "eq" -> row[c.col] = c.v
      [] c.kind = "in" -> row[c.col] \in Elems(c.vs)
      [] c.kind = "start>=" -> start_ge(row, c.t)
      [] c.kind = "stop<=" -> stop_le(row, c.t)
      [] c.kind = "flag" -> row[c.col] = 1
      [] c.kind = "st_intersects" -> c.cells \cap row.bbox # {}

(* the conditions joined by OR *)
where_any(conds, row) == \E k \in 1..Len(conds) : holds(conds[k], row)

(* ' AND '.join(arg_format) *)
where(conds, row) == \A k \in 1..Len(conds) : holds(conds[k], row)

RECURSIVE fetchall(_, _)
fetchall(tbl, conds) ==
    IF tbl = <<>> THEN <<>>
    ELSE (IF where(conds, Head(tbl)) THEN <<Head(tbl)>> ELSE <<>>) \o fetchall(Tail(tbl), conds)

(* a select that returns the fetched (scene, outname_base) entries whole *)
both_columns(scenes) ==
    [i \in 1..Len(scenes) |-> [scene |-> scenes[i].scene, outname_base |-> scenes[i].outname_base]]

(* Archive.select: only the scene entry x[0] of each fetched row is returned *)
first_column(scenes) == [i \in 1..Len(scenes) |-> scenes[i].scene]

(* a product file in a processing directory: its name starts with the     *)
(* output base name of the scene it was processed from                    *)
Product(name) == [base |-> name]

(* re.search(pattern, file name) for a pattern that is an output base name *)
Matches(pattern, file) == file.base = pattern

(* ancillary.finder(folder, matchlist, regex=True, recursive): the files   *)
(* of the folder, and of its subfolders if recursive, that match a pattern *)
finder(folder, matchlist, recursive) ==
    {f \in folder.top \cup (IF recursive THEN folder.sub ELSE {}) :
        \E k \in 1..Len(matchlist) : Matches(matchlist[k], f)}

(* a filter that keeps the scenes that have a product *)
processed(scenes, processdir, recursive) ==
    LET Keep(x) == Cardinality(finder(processdir.dir, <<x.outname_base>>, recursive)) # 0
    IN  SelectSeq(scenes, Keep)

(* Archive.select: the fetched rows without a product in processdir *)
unprocessed(scenes, processdir, recursive) ==
    LET Keep(x) == Cardinality(finder(processdir.dir, <<x.outname_base>>, recursive)) = 0
    IN  SelectSeq(scenes, Keep)

(* Archive.select: an empty arg_format leaves a query that ends in WHERE *)
query(tbl, conds, a) ==
    IF conds = <<>> THEN [err |-> Err("OperationalError", "syntax"), out |-> <<>>]
    ELSE IF a.processdir # None
    THEN [err |-> NoErr,
          out |-> first_column(unprocessed(fetchall(tbl, conds), a.processdir, a.recursive))]
    ELSE [err |-> NoErr, out |-> first_column(fetchall(tbl, conds))]

(* Archive.select *)
select(tbl, a) == CHOOSE out \in {query(tbl, conds, a) : conds \in {arg_format(a)}} : TRUE

-----------------------------------------------------------------------------
(* ID.parse_date *)

(* A time string is abstracted by its layout, the values of its fields and *)
(* the number of digits of its fraction of a second (0: no fraction and no *)
(* decimal point).  The layouts are named by the strptime format they are  *)
(* written in; "Y-m-d H:M:S.f" and "Y/m/d" are layouts of no known format. *)
TimeFormats == <<"d-b-Y H:M:S.f", "YmdHMSf", "Y-m-dTH:M:S.f", "Y-m-dTH:M:S.fZ", "Ymd H:M:S.f">>

TimeString(layout, year, month, day, hour, second, frac) ==
    [kind |-> "str", layout |-> layout, year |-> year, month |-> month, day |-> day,
     hour |-> hour, minute |-> 30, second |-> second, frac |-> frac]

Leap(y) == (y % 4 = 0 /\ y % 100 # 0) \/ y % 400 = 0

DaysIn(y, m) ==
    IF m = 2 THEN (IF Leap(y) THEN 29 ELSE 28)
    ELSE IF m \in {4, 6, 9, 11} THEN 30 ELSE 31

(* time.strptime(x, format): TypeError for an argument that is no string;  *)
(* ValueError if the string is not laid out as the format, a field is out  *)
(* of range, the day is not a day of the month, or text is left over (a    *)
(* seventh digit of the fraction, a final Z).  In the format without       *)
(* separators a string without fraction still matches: %S takes the first  *)
(* digit of the seconds and %f the second.                                 *)
strptime(x, format) ==
    IF x.kind # "str" THEN [err |-> Err("TypeError", "strptime")]
    ELSE IF \/ x.layout # format
            \/ x.frac > 6
            \/ x.frac = 0 /\ format # "YmdHMSf"
            \/ x.month \notin 1..12
            \/ x.hour \notin 0..23
            \/ x.second \notin 0..61
            \/ x.day \notin 1..31
    THEN [err |-> Err("ValueError", "does not match format")]
    ELSE IF x.day > DaysIn(x.year, x.month)
    THEN [err |-> Err("ValueError", "day is out of range for month")]
    ELSE [err |-> NoErr,
          tm |-> [year |-> x.year, mon |-> x.month, mday |-> x.day, hour |-> x.hour,
                  min |-> x.minute,
                  sec |-> IF x.frac = 0 THEN x.second \div 10 ELSE x.second]]

DigitChars == <<"0", "1", "2", "3", "4", "5", "6", "7", "8", "9">>

(* the decimal digits of n, padded with zeros to width w *)
RECURSIVE Digits(_, _)
Digits(n, w) ==
    IF w <= 1 /\ n < 10 THEN <<DigitChars[n + 1]>>
    ELSE Append(Digits(n \div 10, w - 1), DigitChars[(n % 10) + 1])

(* the year time.strftime of Python 2.7 works with: with accept2dyear set  *)
(* (the default) a year below 1900 is taken as a two-digit year if it is   *)
(* below 100 and is refused otherwise                                      *)
strftime_year(y) ==
    IF y >= 1900 THEN [err |-> NoErr, year |-> y]
    ELSE IF y \in 69..99 THEN [err |-> NoErr, year |-> y + 1900]
    ELSE IF y \in 0..68 THEN [err |-> NoErr, year |-> y + 2000]
    ELSE [err |-> Err("ValueError", "year out of range")]

(* time.strftime('%Y%m%dT%H%M%S', tm) *)
strftime(tm) ==
    LET y == strftime_year(tm.year)
    IN  IF y.err # NoErr THEN [err |-> y.err]
        ELSE [err |-> NoErr,
              out |-> Digits(y.year, 4) \o Digits(tm.mon, 2) \o Digits(tm.mday, 2) \o <<"T">>
                          \o Digits(tm.hour, 2) \o Digits(tm.min, 2) \o Digits(tm.sec, 2)]

(* strftime('%Y%m%dT%H%M%S', strptime(x, timeformat)) *)
convert(x, timeformat) ==
    LET p == strptime(x, timeformat)
    IN  IF p.err # NoErr THEN [err |-> p.err] ELSE strftime(p.tm)

(* ID.parse_date: the first format that converts; TypeError and ValueError *)
(* of a conversion are passed over                                         *)
RECURSIVE parse_date_from(_, _)
parse_date_from(i, x) ==
    IF i > Len(TimeFormats)
    THEN [err |-> Err("ValueError", "unknown time format; check function ID.parse_date")]
    ELSE LET r == convert(x, TimeFormats[i])
         IN  IF r.err = NoErr THEN r
             ELSE IF r.err.type \in {"TypeError", "ValueError"} THEN parse_date_from(i + 1, x)
             ELSE r

parse_date(x) == parse_date_from(1, x)

-----------------------------------------------------------------------------
(* Arguments *)

Str(p) == [kind |-> "str", path |-> p]

Obj(id) == [kind |-> "ID", id |-> id]

(* the ID objects a caller holds: records identify has returned *)
Objects == {Obj(identify(p).id) : p \in {q \in Paths : q.dir = "d2" /\ identify(q).err = NoErr}}

SceneArgs == {Str(p) : p \in Paths} \cup Objects

RECURSIVE ListsUpTo(_, _)
ListsUpTo(S, n) ==
    IF n = 0 THEN {<<>>}
    ELSE LET shorter == ListsUpTo(S, n - 1)
         IN  shorter \cup {Append(l, x) : l \in {m \in shorter : Len(m) = n - 1}, x \in S}

SceneLists == ListsUpTo(SceneArgs, MaxList)

List(l) == [kind |-> "list", list |-> l]

(* the scenes offered to the catalog *)
InsertPaths == Paths \ {Path("d1", "ASA_IM__0.N1"), Path("d1", "TSX1_x.xml"), Path("d2", "alos"),
                         Path("d1", "ASA_APP.N1"), Path("d3", "alos")}

InsertSceneArgs == {x \in SceneArgs : IF x.kind = "str" THEN x.path \in InsertPaths
                                      ELSE x.id.scene \in InsertPaths}

(* what a caller hands to Archive.insert: a path, an ID object, a list of *)
(* either, or something else                                               *)
InsertArgs == InsertSceneArgs \cup {List(l) : l \in ListsUpTo(InsertSceneArgs, MaxList)}
                  \cup {[kind |-> "other"]}

(* the scene lists handed to Archive.filter_scenelist *)
FilterLists == ListsUpTo(InsertSceneArgs, MaxList)

(* the arguments handed to ID.parse_date: time strings and None *)
TimeLayouts == Elems(TimeFormats) \cup {"Y-m-d H:M:S.f", "Y/m/d"}

TimeStrings ==
    {TimeString(l, y, m, dd, h, s, f) :
        l \in TimeLayouts, y \in {68, 1899, 1900, 2020}, m \in {2, 12, 13}, dd \in {1, 30},
        h \in {0, 24}, s \in {7, 59}, f \in {0, 6, 7}} \cup {None}

Date(t) == [kind |-> "date", t |-> t]

(* a date argument: none, a string of another form, or a time stamp *)
DateArgs == {None, [kind |-> "bad"]} \cup {Date(t) : t \in Times \ {1, Len(Stamps)}}

PolarizationArgs == {<<>>, <<"VV">>, <<"VV", "VH">>, <<"HH">>, <<"XX">>}

(* a vectorobject argument: none, an object of another type, or a Vector *)
VectorArgs == {None, [kind |-> "other"], [kind |-> "vector", cells |-> {1}]}

Scalar(v) == [kind |-> "scalar", v |-> v]

(* the keyword arguments of select *)
ColumnArgs == {<<>>,
               <<[key |-> "sensor", val |-> Scalar(<<"S", "1", "A">>)]>>,
               <<[key |-> "sensor", val |-> [kind |-> "list",
                                             vs |-> <<<<"S", "1", "A">>, <<"A", "S", "A", "R">>>>]]>>,
               <<[key |-> "sensor", val |-> [kind |-> "other"]]>>,
               <<[key |-> "mission", val |-> Scalar(<<"S", "1", "A">>)]>>}

(* the arguments of a select without processdir *)
SelectArgs == [vectorobject : VectorArgs, mindate : DateArgs, maxdate : DateArgs,
               polarizations : PolarizationArgs, args : ColumnArgs,
               processdir : {None}, recursive : {FALSE}]

Dir(d) == [kind |-> "dir", dir |-> d]

(* processing directories: one with the product of scene S1A_a at its top *)
(* and the product of scene S1A_b in a subfolder, and one without products *)
ProcessDirs ==
    {[top |-> {Product(outname_base(MakeID(Path("d1", "S1A_a.SAFE"), "SAFE", S1A_a)))},
      sub |-> {Product(outname_base(MakeID(Path("d1", "S1A_b.SAFE"), "SAFE", S1A_b)))}],
     [top |-> {}, sub |-> {}]}

(* the arguments of a select with processdir *)
UnprocessedArgs == [vectorobject : {None}, mindate : DateArgs, maxdate : {None, Date(4)},
                    polarizations : {<<>>, <<"VV">>},
                    args : {<<>>, <<[key |-> "sensor", val |-> Scalar(<<"S", "1", "A">>)]>>},
                    processdir : {Dir(d) : d \in ProcessDirs}, recursive : BOOLEAN]

-----------------------------------------------------------------------------
(* State *)

VARIABLES
    rows,   \* table data as this connection sees it, in rowid order
    disk,   \* table data as committed to the database file
    call,   \* the last call and what it returned or raised; Idle between calls
    conn,   \* the connection of the Archive object: "open" or "closed"
    schema  \* the tables of the database file and the columns of table data

vars == <<rows, disk, call, conn, schema>>

Idle == [op |-> "idle"]

(* an Archive constructed on a new database file *)
Init ==
    /\ \E f \in {archive_init(NoFile)} :
           /\ rows = f.rows
           /\ disk = f.rows
           /\ schema = [tables |-> f.tables, columns |-> f.columns]
    /\ call = Idle
    /\ conn = "open"

(* the caller takes the result of the last call *)
Return ==
    /\ call # Idle
    /\ call' = Idle
    /\ UNCHANGED <<rows, disk, conn, schema>>

Identify ==
    \E p \in Paths :
        /\ call = Idle
        /\ LET r == identify(p)
           IN  call' = [op |-> "identify", arg |-> p, err |-> r.err,
                        out |-> IF r.err = NoErr THEN <<r.id>> ELSE <<>>]
        /\ UNCHANGED <<rows, disk, conn, schema>>

IdentifyMany ==
    \E scenes \in SceneLists :
        /\ call = Idle
        /\ LET r == identify_many(scenes)
           IN  call' = [op |-> "identify_many", arg |-> scenes, err |-> r.err, out |-> r.out]
        /\ UNCHANGED <<rows, disk, conn, schema>>

InsertFrom(arguments) ==
    \E scene_in \in arguments, verbose \in BOOLEAN :
        /\ call = Idle
        /\ \E r \in {IF conn = "open" THEN insert([rows |-> rows, disk |-> disk], scene_in)
                    ELSE closed_insert([rows |-> rows, disk |-> disk], scene_in)} :
               /\ rows' = r.rows
               /\ disk' = r.disk
               /\ call' = [op |-> "insert", arg |-> scene_in, verbose |-> verbose,
                           err |-> r.err, found |-> r.found, done |-> r.done,
                           printed |-> IF verbose THEN r.found ELSE <<>>]
        /\ UNCHANGED <<conn, schema>>

Insert == InsertFrom(InsertArgs)

(* insert of a single scene *)
InsertScene == InsertFrom(InsertSceneArgs)

Select ==
    \E a \in SelectArgs :
        /\ call = Idle
        /\ \E r \in {IF conn = "open" THEN select(rows, a)
                    ELSE [err |-> ClosedErr, out |-> <<>>]} :
               call' = [op |-> "select", arg |-> a, err |-> r.err, out |-> r.out]
        /\ UNCHANGED <<rows, disk, conn, schema>>

(* select with a processing directory *)
SelectUnprocessed ==
    \E a \in UnprocessedArgs :
        /\ call = Idle
        /\ \E r \in {IF conn = "open" THEN select(rows, a)
                    ELSE [err |-> ClosedErr, out |-> <<>>]} :
               call' = [op |-> "select", arg |-> a, err |-> r.err, out |-> r.out]
        /\ UNCHANGED <<rows, disk, conn, schema>>

FilterScenelist ==
    \E scenelist \in FilterLists :
        /\ call = Idle
        /\ \E r \in {IF conn = "open" THEN filter_scenelist(rows, scenelist)
                    ELSE [err |-> ClosedErr, out |-> <<>>]} :
               call' = [op |-> "filter_scenelist", arg |-> scenelist, err |-> r.err, out |-> r.out]
        /\ UNCHANGED <<rows, disk, conn, schema>>

(* the property Archive.size *)
Size ==
    /\ call = Idle
    /\ call' = IF conn = "open" THEN [op |-> "size", err |-> NoErr, out |-> <<size(rows)>>]
               ELSE [op |-> "size", err |-> ClosedErr, out |-> <<>>]
    /\ UNCHANGED <<rows, disk, conn, schema>>

(* Archive.close and Archive.__exit__: changes that were not committed are *)
(* lost with the connection                                                *)
Close ==
    /\ call = Idle
    /\ conn' = "closed"
    /\ rows' = disk
    /\ call' = [op |-> "close", err |-> NoErr]
    /\ UNCHANGED <<disk, schema>>

(* Archive(dbfile) on the database file of a closed Archive *)
Open ==
    /\ call = Idle
    /\ conn = "closed"
    /\ \E f \in {archive_init([tables |-> schema.tables, columns |-> schema.columns,
                                rows |-> disk])} :
           /\ rows' = f.rows
           /\ disk' = f.rows
           /\ schema' = [tables |-> f.tables, columns |-> f.columns]
    /\ conn' = "open"
    /\ call' = [op |-> "init", err |-> NoErr]

ParseDate ==
    \E x \in TimeStrings :
        /\ call = Idle
        /\ \E r \in {parse_date(x)} :
               call' = [op |-> "parse_date", arg |-> x, err |-> r.err,
                        out |-> IF r.err = NoErr THEN <<r.out>> ELSE <<>>]
        /\ UNCHANGED <<rows, disk, conn, schema>>

NextCatalog == Insert \/ Return

SpecCatalog == Init /\ [][NextCatalog]_vars

NextSelect == InsertScene \/ Select \/ Return

SpecSelect == Init /\ [][NextSelect]_vars

NextUnprocessed == InsertScene \/ SelectUnprocessed \/ Return

SpecUnprocessed == Init /\ [][NextUnprocessed]_vars

NextFilter == InsertScene \/ FilterScenelist \/ Return

SpecFilter == Init /\ [][NextFilter]_vars

NextArchive == Insert \/ SelectUnprocessed \/ FilterScenelist \/ Size \/ Return

SpecArchive == Init /\ [][NextArchive]_vars

NextLifecycle == InsertScene \/ SelectUnprocessed \/ Size \/ Close \/ Open \/ Return

SpecLifecycle == Init /\ [][NextLifecycle]_vars

NextParseDate == ParseDate \/ Return

SpecParseDate == Init /\ [][NextParseDate]_vars

NextIdentify == Identify \/ IdentifyMany \/ Return

SpecIdentify == Init /\ [][NextIdentify]_vars

-----------------------------------------------------------------------------
(* Claims about identification *)

(* the positions of the handlers whose constructor succeeds on p *)
Succeeding(p) == {i \in 1..Len(Handlers) : Construct(Handlers[i], p).err = NoErr}

FirstSucceeding(p) == CHOOSE i \in Succeeding(p) : \A j \in Succeeding(p) : i <= j

NotSupported == Err("IOError", "data format not supported")

(* C1: identify returns the record of the first handler whose construction *)
(* succeeds, and when every handler fails it fails with the IOError 'data  *)
(* format not supported', never with an error of a handler.                *)
C1_FirstSuccessOrNotSupported ==
    call.op = "identify" =>
        IF Succeeding(call.arg) # {}
        THEN /\ call.err = NoErr
             /\ call.out = <<Construct(Handlers[FirstSucceeding(call.arg)], call.arg).id>>
        ELSE call.err = NotSupported

(* the scenes a handler recognizes as a level-0 product *)
Level0Recognized(p) ==
    \E i \in 1..Len(Handlers) :
        Construct(Handlers[i], p).err = Err("IOError", "product level 0 not supported (yet)")

(* C2: the rejection of a recognized level-0 product reaches the caller of *)
(* identify as it was raised, not as the generic 'format not supported'.   *)
C2_Level0RejectionPropagates ==
    (call.op = "identify" /\ Level0Recognized(call.arg)) =>
        call.err = Err("IOError", "product level 0 not supported (yet)")

(* C3: no per-field parse failure of a handler leaves identify: whenever   *)
(* identify fails, the error is 'format not supported'.                    *)
C3_ParseFailuresAreCaught ==
    (call.op = "identify" /\ call.err # NoErr) => call.err = NotSupported

(* the records of the identifiable elements of a list, in list order *)
RECURSIVE Identifiable(_)
Identifiable(scenes) ==
    IF scenes = <<>> THEN <<>>
    ELSE LET x == Head(scenes)
             r == IF x.kind = "ID" THEN [err |-> NoErr, id |-> x.id] ELSE identify(x.path)
         IN  (IF r.err = NoErr THEN <<r.id>> ELSE <<>>) \o Identifiable(Tail(scenes))

(* C4: identify_many raises nothing and returns exactly the records of the *)
(* identifiable inputs, in input order.                                    *)
C4_IdentifyManySkipsSilently ==
    call.op = "identify_many" =>
        /\ call.err = NoErr
        /\ call.out = Identifiable(call.arg)

-----------------------------------------------------------------------------
(* Claims about insertion *)

Keys(tbl) == {tbl[i].outname_base : i \in 1..Len(tbl)}

Scenes(tbl) == {tbl[i].scene : i \in 1..Len(tbl)}

Basenames(tbl) == {basename(q) : q \in Scenes(tbl)}

(* the path of a single scene argument *)
ScenePath(x) == IF x.kind = "str" THEN x.path ELSE x.id.scene

(* insert is handed, alone or as the only element of a list of paths, a   *)
(* scene that has a row in the table                                       *)
InsertsRegistered(c, tbl) ==
    /\ c.op = "insert"
    /\ \/ c.arg.kind \in {"str", "ID"} /\ ScenePath(c.arg) \in Scenes(tbl)
       \/ /\ c.arg.kind = "list"
          /\ Len(c.arg.list) = 1
          /\ c.arg.list[1].kind = "str"
          /\ c.arg.list[1].path \in Scenes(tbl)

TheScene(c) == IF c.arg.kind = "list" THEN c.arg.list[1].path ELSE ScenePath(c.arg)

(* C5 as stated: a second insert of a registered scene adds no row, raises *)
(* nothing, leaves size unchanged and reports the path of the existing row.*)
C5_SecondInsertReports ==
    [][InsertsRegistered(call', rows) =>
          /\ call'.err = NoErr
          /\ size(rows') = size(rows)
          /\ Cardinality({i \in 1..Len(rows') : rows'[i].scene = TheScene(call')}) = 1
          /\ call'.printed = <<TheScene(call')>>]_vars

(* C5 amended: a second insert of a registered scene adds no row, raises   *)
(* nothing and leaves size unchanged; handed over alone it hits the        *)
(* uniqueness violation, the path of the existing row is fetched and is    *)
(* printed only if verbose is set; handed over in a list it is dropped by  *)
(* the basename filter and nothing is fetched or printed.                  *)
C5_SecondInsertIsSkipped ==
    [][InsertsRegistered(call', rows) =>
          /\ call'.err = NoErr
          /\ rows' = rows
          /\ disk' = disk
          /\ size(rows') = size(rows)
          /\ Cardinality({i \in 1..Len(rows') : rows'[i].scene = TheScene(call')}) = 1
          /\ call'.found = IF call'.arg.kind = "list" THEN <<>> ELSE <<TheScene(call')>>
          /\ call'.printed = IF call'.verbose THEN call'.found ELSE <<>>]_vars

(* a registered scene that is not the first row was inserted again, alone  *)
C5_Witness ==
    /\ call.op = "insert"
    /\ call.arg.kind = "str"
    /\ call.verbose
    /\ Len(rows) >= 2
    /\ call.printed = <<call.arg.path>>
    /\ rows[2].scene = call.arg.path

NoDuplicateNames(tbl) ==
    \A i, j \in 1..Len(tbl) : tbl[i].outname_base = tbl[j].outname_base => i = j

(* C6: no two rows of the table share their output base name.              *)
C6_OutnameUnique == NoDuplicateNames(rows) /\ NoDuplicateNames(disk)

(* a list insert met a registered output base name in a table of two rows  *)
C6_Witness ==
    /\ call.op = "insert"
    /\ call.arg.kind = "list"
    /\ call.found # <<>>
    /\ Len(rows) >= 2

(* the records the loop of a list insert runs over *)
BatchScenes(tbl, c) == insert_scenes(tbl, c.arg).out

(* C7: when a list insert fails at its k-th record, the rows that were in  *)
(* the database file before and the rows inserted for records 1..k-1 are   *)
(* in the database file afterwards.                                        *)
C7_EarlierRowsStay ==
    [][(call'.op = "insert" /\ call'.arg.kind = "list" /\ call'.err # NoErr) =>
          /\ \A i \in 1..Len(disk) : i <= Len(disk') /\ disk'[i] = disk[i]
          /\ \A j \in 1..call'.done :
                LET id == BatchScenes(rows, call')[j]
                IN  (/\ outname_base(id) \notin Keys(rows)
                     /\ \A k \in 1..(j - 1) :
                           outname_base(BatchScenes(rows, call')[k]) # outname_base(id))
                    => \E i \in 1..Len(disk') :
                          /\ disk'[i].scene = id.scene
                          /\ disk'[i].outname_base = outname_base(id)]_vars

(* a list insert failed at its second record after it had inserted the first *)
C7_Witness ==
    /\ call.op = "insert"
    /\ call.arg.kind = "list"
    /\ call.err # NoErr
    /\ call.done = 1
    /\ Len(disk) >= 1
    /\ disk[Len(disk)].scene = call.arg.list[1].path

(* the elements of a scene list that stop a list insert: an ID object, or *)
(* a path that passes the basename filter and either leaves identify with *)
(* an error that is no IOError or has no corner coordinates                *)
Aborting(tbl, x) ==
    \/ x.kind = "ID"
    \/ /\ x.kind = "str"
       /\ basename(x.path) \notin Basenames(tbl)
       /\ LET r == identify(x.path)
          IN  IF r.err = NoErr THEN ~r.id.corners ELSE r.err.type # "IOError"

(* the paths of a scene list that can be registered and are not yet *)
ValidNew(tbl, x) ==
    /\ x.kind = "str"
    /\ basename(x.path) \notin Basenames(tbl)
    /\ identify(x.path).err = NoErr
    /\ identify(x.path).id.corners

(* the paths of a scene list that cannot be registered *)
Failing(x) ==
    /\ x.kind = "str"
    /\ LET r == identify(x.path) IN IF r.err = NoErr THEN ~r.id.corners ELSE TRUE

-----------------------------------------------------------------------------
(* Claims about selection *)

(* the criteria of a select call that are in effect *)
TimeGiven(d) == d.kind = "date"

PassesColumns(row, a) ==
    \A k \in 1..Len(a.args) :
        a.args[k].key \in ColNames =>
            /\ a.args[k].val.kind = "scalar" => row[a.args[k].key] = a.args[k].val.v
            /\ a.args[k].val.kind = "list" => row[a.args[k].key] \in Elems(a.args[k].val.vs)

PassesPolarizations(row, a) ==
    /\ "HH" \in Elems(a.polarizations) => row.hh = 1
    /\ "VV" \in Elems(a.polarizations) => row.vv = 1
    /\ "HV" \in Elems(a.polarizations) => row.hv = 1
    /\ "VH" \in Elems(a.polarizations) => row.vh = 1

PassesGeometry(row, a) ==
    a.vectorobject.kind = "vector" => a.vectorobject.cells \cap row.bbox # {}

(* the time window as the code applies it: start from mindate on, stop up to maxdate *)
PassesWindow(row, a) ==
    /\ TimeGiven(a.mindate) => a.mindate.t <= row.start
    /\ TimeGiven(a.maxdate) => row.stop <= a.maxdate.t

(* the time window as a pair of bounds on start *)
PassesStartWindow(row, a) ==
    /\ TimeGiven(a.mindate) => a.mindate.t <= row.start
    /\ TimeGiven(a.maxdate) => row.start <= a.maxdate.t

Returned(c) == Elems(c.out)

(* C9: a select that returns, returns a registered row if and only if the  *)
(* row satisfies every criterion in effect: the geometry, the time window, *)
(* each column argument and each requested polarization.                   *)
C9_ConjunctiveFilter ==
    (call.op = "select" /\ call.err = NoErr) =>
        /\ Returned(call) \subseteq Scenes(rows)
        /\ \A i \in 1..Len(rows) :
              rows[i].scene \in Returned(call) <=>
                  /\ PassesGeometry(rows[i], call.arg)
                  /\ PassesWindow(rows[i], call.arg)
                  /\ PassesColumns(rows[i], call.arg)
                  /\ PassesPolarizations(rows[i], call.arg)

(* three registered scenes, two of them VV inside the window of the second *)
(* to the fourth time stamp and one outside, and select(mindate, maxdate,  *)
(* polarizations=['VV']) has returned the two                              *)
C9_Witness ==
    /\ call.op = "select"
    /\ call.arg = [vectorobject |-> None, mindate |-> Date(2), maxdate |-> Date(4),
                   polarizations |-> <<"VV">>, args |-> <<>>,
                   processdir |-> None, recursive |-> FALSE]
    /\ Len(rows) = 3
    /\ Cardinality({i \in 1..3 : rows[i].vv = 1 /\ 2 <= rows[i].start /\ rows[i].stop <= 4}) = 2
    /\ Len(call.out) = 2
    /\ Returned(call) = {rows[i].scene : i \in {j \in 1..3 : rows[j].stop <= 4}}

OnlyDates(a) ==
    /\ a.vectorobject = None
    /\ a.polarizations = <<>>
    /\ a.args = <<>>

(* C10 as stated: the rows a select by dates alone returns are those whose *)
(* start lies between mindate and maxdate, bounds included.                *)
C10_BoundsOnStart ==
    (call.op = "select" /\ call.err = NoErr /\ OnlyDates(call.arg)) =>
        \A i \in 1..Len(rows) :
            rows[i].scene \in Returned(call) <=> PassesStartWindow(rows[i], call.arg)

(* C10 amended: the lower bound is on start and the upper bound is on stop, *)
(* bounds included: every returned row has mindate <= start and            *)
(* stop <= maxdate, and a select by dates alone returns all such rows.     *)
C10_StartFromStopUpTo ==
    (call.op = "select" /\ call.err = NoErr) =>
        \A i \in 1..Len(rows) :
            /\ rows[i].scene \in Returned(call) => PassesWindow(rows[i], call.arg)
            /\ (OnlyDates(call.arg) /\ PassesWindow(rows[i], call.arg))
                   => rows[i].scene \in Returned(call)

(* a select by dates returned a row that starts at mindate and stops at    *)
(* maxdate and left out a row that starts inside the window and stops late *)
C10_Witness ==
    /\ call.op = "select"
    /\ OnlyDates(call.arg)
    /\ TimeGiven(call.arg.mindate)
    /\ TimeGiven(call.arg.maxdate)
    /\ \E i \in 1..Len(rows) :
          /\ rows[i].start = call.arg.mindate.t
          /\ rows[i].stop = call.arg.maxdate.t
          /\ rows[i].scene \in Returned(call)
    /\ \E i \in 1..Len(rows) :
          /\ rows[i].start <= call.arg.maxdate.t
          /\ rows[i].stop > call.arg.maxdate.t
          /\ rows[i].scene \notin Returned(call)

(* the (scene, outname_base) entry the query fetches for a row *)
Entry(row) == [scene |-> row.scene, outname_base |-> row.outname_base]

(* the position of the row of a registered scene *)
RowOf(tbl, p) == CHOOSE i \in 1..Len(tbl) : tbl[i].scene = p

Searched(a) == a.processdir.dir.top \cup (IF a.recursive THEN a.processdir.dir.sub ELSE {})

HasProduct(row, a) == \E f \in Searched(a) : f.base = row.outname_base

PassesFilter(row, a) ==
    /\ PassesGeometry(row, a)
    /\ PassesWindow(row, a)
    /\ PassesColumns(row, a)
    /\ PassesPolarizations(row, a)

(* C12: a select with processdir returns exactly the rows that match the   *)
(* database filter and have no product of their output base name in the    *)
(* directory, its subfolders counting only if recursive is set.            *)
C12_ExcludesProcessed ==
    (call.op = "select" /\ call.err = NoErr /\ call.arg.processdir # None) =>
        \A i \in 1..Len(rows) :
            rows[i].scene \in Returned(call) <=>
                PassesFilter(rows[i], call.arg) /\ ~HasProduct(rows[i], call.arg)

(* a select that does not search the subfolders dropped a matching row     *)
(* with a product at the top of processdir and kept a matching row with a  *)
(* product in a subfolder                                                  *)
C12_Witness ==
    /\ call.op = "select"
    /\ call.err = NoErr
    /\ call.arg.processdir # None
    /\ ~call.arg.recursive
    /\ \E i, j \in 1..Len(rows) :
          /\ PassesFilter(rows[i], call.arg)
          /\ Product(rows[i].outname_base) \in call.arg.processdir.dir.top
          /\ rows[i].scene \notin Returned(call)
          /\ PassesFilter(rows[j], call.arg)
          /\ Product(rows[j].outname_base) \in call.arg.processdir.dir.sub
          /\ rows[j].scene \in Returned(call)

-----------------------------------------------------------------------------
(* Claims about the catalog as a whole *)

OnlyPaths(l) == \A k \in 1..Len(l) : l[k].kind = "str"

(* the positions of a list of paths whose basename no registered scene has *)
Unregistered(tbl, l) == {k \in 1..Len(l) : basename(l[k].path) \notin Basenames(tbl)}

(* C13: filter_scenelist on a list of paths raises nothing and returns, in *)
(* input order, exactly the paths whose basename is not the basename of a  *)
(* registered scene.                                                       *)
C13_FilterByBasename ==
    (call.op = "filter_scenelist" /\ OnlyPaths(call.arg)) =>
        /\ call.err = NoErr
        /\ Len(call.out) = Cardinality(Unregistered(rows, call.arg))
        /\ \A k \in Unregistered(rows, call.arg) :
              call.out[Cardinality({j \in Unregistered(rows, call.arg) : j <= k})] = call.arg[k]

(* of two paths, the first with the basename of a scene registered from    *)
(* another directory and the second with a basename that is not            *)
(* registered, filter_scenelist returned the second                        *)
C13_Witness ==
    /\ call.op = "filter_scenelist"
    /\ Len(call.arg) = 2
    /\ OnlyPaths(call.arg)
    /\ call.arg[1].path \notin Scenes(rows)
    /\ basename(call.arg[1].path) \in Basenames(rows)
    /\ basename(call.arg[2].path) \notin Basenames(rows)
    /\ call.out = <<call.arg[2]>>

(* insert is handed a list of two paths, one of a registered scene and one *)
(* of a file that is not registered and that identify accepts              *)
RegisteredAndNew(c, tbl) ==
    /\ c.op = "insert"
    /\ c.arg.kind = "list"
    /\ Len(c.arg.list) = 2
    /\ OnlyPaths(c.arg.list)
    /\ \E k \in 1..2 :
          /\ c.arg.list[k].path \in Scenes(tbl)
          /\ c.arg.list[3 - k].path \notin Scenes(tbl)
          /\ identify(c.arg.list[3 - k].path).err = NoErr

(* the path of the two that is not registered *)
NewPath(c, tbl) ==
    IF c.arg.list[1].path \in Scenes(tbl) THEN c.arg.list[2].path ELSE c.arg.list[1].path

RowsKept(tbl, next) == \A i \in 1..Len(tbl) : i <= Len(next) /\ next[i] = tbl[i]

(* C15: no call of insert, select, filter_scenelist or size changes or     *)
(* removes a row, in the view of the connection or in the database file,   *)
(* and size never decreases.                                               *)
C15_RowsAreNeverChanged ==
    [][/\ RowsKept(rows, rows')
       /\ RowsKept(disk, disk')
       /\ size(rows') >= size(rows)]_vars

(* a scene with the output base name of a registered scene was inserted    *)
(* from another path, and the row of the registered scene is as it was     *)
C15_Witness ==
    /\ call.op = "insert"
    /\ call.arg.kind = "str"
    /\ call.err = NoErr
    /\ Len(rows) = 2
    /\ call.found = <<rows[2].scene>>
    /\ call.arg.path # rows[2].scene
    /\ rows[2].outname_base = outname_base(identify(call.arg.path).id)
    /\ disk = rows

(* C16: constructing an Archive on a database file that has the data table *)
(* and the bbox column creates nothing and leaves the schema and the rows  *)
(* as they are, so that closing and opening again keeps the catalog.       *)
C16_InitIsIdempotent ==
    [][call'.op \in {"init", "close"} =>
          /\ schema' = schema
          /\ disk' = disk
          /\ call'.op = "init" =>
                /\ rows' = disk
                /\ "data" \in schema'.tables
                /\ schema'.columns = ColNames]_vars

(* an Archive was constructed on the database file of a closed Archive     *)
(* with two rows, and sees the two rows                                    *)
C16_Witness ==
    /\ call.op = "init"
    /\ conn = "open"
    /\ Len(disk) = 2
    /\ rows = disk

(* C17: on an Archive that was closed no insert adds a row and no select   *)
(* returns a result: a call of either raises and the table is as it was.   *)
C17_NothingAfterClose ==
    [][(conn = "closed" /\ call'.op \in {"insert", "select"}) =>
          /\ call'.err # NoErr
          /\ rows' = rows
          /\ disk' = disk
          /\ call'.op = "select" => call'.out = <<>>]_vars

(* a scene that is not registered and can be was handed to insert after    *)
(* close; the insert raised and the table of one row has no row for it     *)
C17_Witness ==
    /\ conn = "closed"
    /\ call.op = "insert"
    /\ call.arg.kind = "str"
    /\ call.err = ClosedErr
    /\ Len(disk) = 1
    /\ ValidNew(disk, call.arg)
    /\ outname_base(identify(call.arg.path).id) \notin Keys(disk)

-----------------------------------------------------------------------------
(* Claims about the records of identify *)

(* a string of the form YYYYMMDDTHHMMSS: 8 digits, 'T', 6 digits *)
IsStamp(s) ==
    /\ Len(s) = 15
    /\ s[9] = "T"
    /\ \A k \in (1..8) \cup (10..15) : s[k] \in Elems(DigitChars)

(* the formats of parse_date a time string is written in *)
MatchingFormats(x) == {i \in 1..Len(TimeFormats) : strptime(x, TimeFormats[i]).err = NoErr}

(* C18: parse_date returns, for every input that matches one of its        *)
(* formats, a string of exactly 15 characters of the form YYYYMMDDTHHMMSS, *)
(* and fails with a ValueError for an input that matches none.             *)
C18_ParseDateNormalizes ==
    call.op = "parse_date" =>
        IF MatchingFormats(call.arg) # {}
        THEN call.err = NoErr /\ Len(call.out) = 1 /\ IsStamp(call.out[1])
        ELSE call.err.type = "ValueError" /\ call.out = <<>>

(* the product at p is of a supported format and its metadata lacks a field *)
LacksField(p) ==
    /\ FS(p).defect # "none"
    /\ \E i \in 1..Len(Handlers) : examine(Handlers[i], FS(p)) = NoErr

(* C19: every record identify returns has the eleven canonical fields, and *)
(* for a product whose metadata lacks one identify goes through the        *)
(* handlers and ends as for an unsupported format, without a record.       *)
C19_CompleteOrRecoverable ==
    call.op = "identify" =>
        /\ call.err = NoErr => Locals \subseteq DOMAIN call.out[1]
        /\ LacksField(call.arg) => call.err = NotSupported /\ call.out = <<>>

(* start <= stop, at least one polarization and a raster of positive size *)
Sound(m) ==
    /\ m.start <= m.stop
    /\ m.polarizations # <<>>
    /\ m.samples > 0
    /\ m.lines > 0

MaxTrailer == 2

(* the number of list entries of facilityRelatedData the model keeps apart; *)
(* a longer list is recorded as this many entries                           *)
MaxRecords == 3

(* the length of the file descriptor record, the first record of the file *)
Before == 720

Zeros(n) == [i \in 1..n |-> 0]

(* struct.pack('>i', v): four bytes, big-endian, two's complement *)
pack(v) ==
    <<(v \div 16777216) % 256, (v \div 65536) % 256, (v \div 256) % 256, v % 256>>

(* struct.unpack('>i', s)[0]; a string that is not four bytes long raises *)
(* struct.error                                                            *)
unpack(s) ==
    IF Len(s) # 4
    THEN [err |-> Err("struct.error", "unpack requires a string argument of length 4"), value |-> 0]
    ELSE [err |-> NoErr,
          value |-> (IF s[1] >= 128 THEN s[1] - 256 ELSE s[1]) * 16777216
                    + s[2] * 65536 + s[3] * 256 + s[4]]

(* an index of a slice: a negative index counts from the end, and an index *)
(* outside the string is moved to its nearest end                          *)
SliceIndex(k, n) ==
    IF k < 0 THEN (IF k + n < 0 THEN 0 ELSE k + n) ELSE IF k > n THEN n ELSE k

(* s[i:j] *)
Slice(s, i, j) ==
    LET a == SliceIndex(i, Len(s))
        b == SliceIndex(j, Len(s))
    IN  IF a >= b THEN <<>> ELSE SubSeq(s, a + 1, b)

(* a facility related record of n bytes whose      length field, the bytes *)
(* 8 to 11, holds `length`; a record cut off before byte 12 has no field   *)
FacilityRecord(length, n) ==
    IF n < 12 THEN Zeros(n) ELSE Zeros(8) \o pack(length) \o Zeros(n - 12)

(* the records a trailer is made of: well-formed ones, one whose length    *)
(* points past its end, one of length zero, one of negative length, and a  *)
(* record cut off inside its first twelve bytes                            *)
TrailerRecords ==
    { [length |-> 12, size |-> 12], [length |-> 16, size |-> 16],
      [length |-> 20, size |-> 16], [length |-> 0, size |-> 12],
      [length |-> -12, size |-> 12], [length |-> 0, size |-> 6] }

Trailers == ListsUpTo(TrailerRecords, MaxTrailer)

RECURSIVE TrailerBytes(_)
TrailerBytes(t) ==
    IF t = <<>> THEN <<>>
    ELSE FacilityRecord(t[1].length, t[1].size) \o TrailerBytes(Tail(t))

(* the content of the leader file: a file descriptor that announces no     *)
(* other record, followed by the trailer                                   *)
Leader(t) == Zeros(Before) \o TrailerBytes(t)

(* facilityRelatedData.append(x) *)
append(data, x) == IF Len(data) < MaxRecords THEN Append(data, x) ELSE data

(* scanMetadata reaches the loop with p1 after the last announced record *)
ScanMetadata ==
    /\ call = Idle
    /\ \E t \in Trailers :
           call' = [op |-> "scanMetadata", arg |-> t, err |-> NoErr,
                    p0 |-> Before, p1 |-> Before,
                    facilityRelatedData |-> <<>>, pc |-> "while"]
    /\ UNCHANGED <<rows, disk, conn, schema>>

(* the condition of the loop: while p1 < len(led) *)
FacilityLoop ==
    /\ call # Idle
    /\ call.op = "scanMetadata"
    /\ call.pc = "while"
    /\ \E led \in {Leader(call.arg)} :
           call' = [call EXCEPT !.pc = IF call.p1 < Len(led) THEN "body" ELSE "done"]
    /\ UNCHANGED <<rows, disk, conn, schema>>

(* the body of the loop: the length of the record at p1 is read, p1 is    *)
(* moved by it and the bytes from p0 to p1 are appended                    *)
FacilityBody ==
    /\ call # Idle
    /\ call.op = "scanMetadata"
    /\ call.pc = "body"
    /\ \E led \in {Leader(call.arg)} :
           \E length \in {unpack(Slice(led, call.p1 + 8, call.p1 + 12))} :
               IF length.err # NoErr
               THEN call' = [call EXCEPT !.p0 = call.p1, !.err = length.err, !.pc = "done"]
               ELSE call' = [call EXCEPT
                                 !.p0 = call.p1,
                                 !.p1 = call.p1 + length.value,
                                 !.facilityRelatedData =
                                     append(@, Slice(led, call.p1, call.p1 + length.value)),
                                 !.pc = "while"]
    /\ UNCHANGED <<rows, disk, conn, schema>>

(* scanMetadata returns the metadata or the error reaches the caller *)
ScanReturn ==
    /\ call # Idle
    /\ call.op = "scanMetadata"
    /\ call.pc = "done"
    /\ call' = Idle
    /\ UNCHANGED <<rows, disk, conn, schema>>

NextLeader == ScanMetadata \/ FacilityLoop \/ FacilityBody \/ ScanReturn

SpecLeader == Init /\ [][NextLeader]_vars

(* the interpreter keeps executing the loop while its condition holds *)
SpecLeaderRuns == Init /\ [][NextLeader]_vars /\ WF_vars(FacilityLoop \/ FacilityBody)

(* ----------------------------------------------------------------------- *)
(* Claims about the leader file                                            *)
(* ----------------------------------------------------------------------- *)

(* the loop has ended with the read position past the end of the file: the *)
(* length field of the last record read points past end-of-file            *)
PastEndOfFile(c) ==
    /\ c.op = "scanMetadata"
    /\ c.pc = "done"
    /\ c.p1 > Len(Leader(c.arg))

(* C21: when the length field of a facility related record points past the *)
(* end of the leader file, parsing raises an error; it does not complete    *)
(* with the part of the record that the file holds.                         *)
C21_TruncatedTrailerRaises ==
    (call # Idle /\ PastEndOfFile(call)) => call.err # NoErr

(* C27: the loop over the facility related records terminates for every    *)
(* content of the leader file: a scan that has started reaches the end of   *)
(* the loop, by end-of-file or by an error.                                 *)
C27_FacilityLoopTerminates ==
    (call # Idle /\ call.op = "scanMetadata") ~>
        (call # Idle /\ call.op = "scanMetadata" /\ call.pc = "done")

(* ======================================================================= *)
(* ID.examine: the representative file of a scene                          *)
(* ======================================================================= *)

(* the file names of an ALOS scene folder: the leader file of a PALSAR-1   *)
(* product, the leader file of a PALSAR-2 product, an image file           *)
MemberNames == {"LED-ALPSR", "LED-ALOS2", "IMG-HH"}

(* the members of a scene folder; a name may occur in the folder and in a  *)
(* subfolder of it                                                         *)
Members == [folder : {"", "sub"}, name : MemberNames]

Folders == SUBSET Members

(* self.pattern of a handler with one pattern, and the list of patterns    *)
(* CEOS_PSR.__init__ tries in turn                                         *)
PatternLists == {<<"LED-ALPSR">>, <<"LED-ALPSR", "LED-ALOS2">>}

(* ID.findfiles: the members whose base name matches the pattern *)
findfiles(scene, pattern) == {x \in scene : x.name = pattern}

(* ID.examine with self.pattern = pattern: self.file is set if exactly one *)
(* member matches                                                          *)
ID_examine(scene, pattern) ==
    LET files == findfiles(scene, pattern)
    IN  IF Cardinality(files) = 1
        THEN [err |-> NoErr, file |-> CHOOSE x \in files : TRUE]
        ELSE IF Cardinality(files) = 0
        THEN [err |-> Err("IOError", "naming convention"), file |-> None]
        ELSE [err |-> Err("IOError", "file ambiguity"), file |-> None]

(* the loop of CEOS_PSR.__init__: the first pattern that examine accepts;  *)
(* the IOError of the last pattern is raised; a handler with one pattern   *)
(* calls examine once                                                      *)
RECURSIVE examine_patterns(_, _, _)
examine_patterns(scene, patterns, i) ==
    LET r == ID_examine(scene, patterns[i])
    IN  IF r.err = NoErr THEN r
        ELSE IF i = Len(patterns) THEN r
        ELSE examine_patterns(scene, patterns, i + 1)

Examine ==
    /\ call = Idle
    /\ \E scene \in Folders, patterns \in PatternLists :
           \E r \in {examine_patterns(scene, patterns, 1)} :
               call' = [op |-> "examine", arg |-> scene, patterns |-> patterns,
                        err |-> r.err, file |-> r.file]
    /\ UNCHANGED <<rows, disk, conn, schema>>

NextExamine == Examine \/ Return

SpecExamine == Init /\ [][NextExamine]_vars

(* the members of the scene that match a pattern of the handler *)
Candidates(c) == {x \in c.arg : \E i \in 1..Len(c.patterns) : x.name = c.patterns[i]}

(* C22: the file resolution of a handler chooses the representative file   *)
(* only when exactly one member matches the handler's file name pattern;   *)
(* with no match it fails with the naming convention error, with more than *)
(* one match with the file ambiguity error, and then no file is chosen.    *)
C22_ExactlyOneCandidate ==
    (call # Idle /\ call.op = "examine") =>
        LET n == Cardinality(Candidates(call))
        IN  /\ n = 1 => (call.err = NoErr /\ call.file \in Candidates(call))
            /\ n = 0 => (call.err = Err("IOError", "naming convention") /\ call.file = None)
            /\ n > 1 => (call.err = Err("IOError", "file ambiguity") /\ call.file = None)

(* ======================================================================= *)
(* SAFE.scanMetadata: the manifest of a Sentinel-1 product                 *)
(* ======================================================================= *)

Chars(s) ==
    CASE s = "ASCENDING" -> <<"A", "S", "C", "E", "N", "D", "I", "N", "G">>
      [] s = "DESCENDING" -> <<"D", "E", "S", "C", "E", "N", "D", "I", "N", "G">>
      [] s = "20200101T000000" ->
             <<"2", "0", "2", "0", "0", "1", "0", "1", "T", "0", "0", "0", "0", "0", "0">>

(* the text of the nodes safe:startTime and safe:stopTime *)
ManifestTimes ==
    { [TimeString(l, 2020, m, 1, 0, s, f) EXCEPT !.minute = s] :
          l \in {"Y-m-dTH:M:S.f", "Y-m-d H:M:S.f"}, m \in {1, 12}, s \in {0, 59}, f \in {6} }

(* the nodes of manifest.safe that scanMetadata reads for the record *)
Manifests ==
    [mode : {<<"I", "W">>, <<"E", "W">>},
     pass : {Chars("ASCENDING"), Chars("DESCENDING")},
     transmitterReceiverPolarisation : {<<"VV", "VH">>, <<"VH", "VV">>, <<"HH">>, <<"HH", "HV">>},
     startTime : ManifestTimes,
     stopTime : {[TimeString("Y-m-dTH:M:S.f", 2020, 12, 1, 0, 59, 6) EXCEPT !.minute = 59]}]

(* a scanMetadata that lists the polarizations in the opposite order *)
SAFE_scanMetadata_reversed(manifest) ==
    LET start == parse_date(manifest.startTime)
        stop == parse_date(manifest.stopTime)
        pols == manifest.transmitterReceiverPolarisation
    IN  IF start.err # NoErr THEN [err |-> start.err]
        ELSE IF stop.err # NoErr THEN [err |-> stop.err]
        ELSE [err |-> NoErr,
              meta |-> [acquisition_mode |-> manifest.mode,
                        start |-> start.out, stop |-> stop.out,
                        orbit |-> manifest.pass[1],
                        polarizations |-> [i \in 1..Len(pols) |-> pols[Len(pols) + 1 - i]]]]

(* SAFE.scanMetadata: the fields of the record read from the manifest *)
SAFE_scanMetadata(manifest) ==
    LET start == parse_date(manifest.startTime)
        stop == parse_date(manifest.stopTime)
    IN  IF start.err # NoErr THEN [err |-> start.err]
        ELSE IF stop.err # NoErr THEN [err |-> stop.err]
        ELSE [err |-> NoErr,
              meta |-> [acquisition_mode |-> manifest.mode,
                        start |-> start.out, stop |-> stop.out,
                        orbit |-> manifest.pass[1],
                        polarizations |-> manifest.transmitterReceiverPolarisation]]

ScanManifest ==
    /\ call = Idle
    /\ \E manifest \in Manifests :
           \E r \in {SAFE_scanMetadata(manifest)} :
               call' = [op |-> "SAFE.scanMetadata", arg |-> manifest, err |-> r.err,
                        out |-> IF r.err = NoErr THEN <<r.meta>> ELSE <<>>]
    /\ UNCHANGED <<rows, disk, conn, schema>>

NextManifest == ScanManifest \/ Return

SpecManifest == Init /\ [][NextManifest]_vars

(* the manifest of scenario A: mode IW, pass ASCENDING, polarizations VV   *)
(* and VH, start 2020-01-01T00:00:00.000000                                *)
ScenarioA(m) ==
    /\ m.mode = <<"I", "W">>
    /\ m.pass = Chars("ASCENDING")
    /\ m.transmitterReceiverPolarisation = <<"VV", "VH">>
    /\ m.startTime = [TimeString("Y-m-dTH:M:S.f", 2020, 1, 1, 0, 0, 6) EXCEPT !.minute = 0]

(* C23: the record of the manifest of scenario A has orbit A, acquisition   *)
(* mode IW, polarizations VV, VH in this order and start 20200101T000000;   *)
(* for every manifest that is scanned the orbit is the first character of   *)
(* the pass, the start is what parse_date makes of the start time, and the  *)
(* polarizations are those of the manifest in their order.                  *)
C23_ManifestToRecord ==
    (call # Idle /\ call.op = "SAFE.scanMetadata" /\ call.err = NoErr) =>
        LET meta == call.out[1]
        IN  /\ meta.orbit = Head(call.arg.pass)
            /\ meta.orbit \in {"A", "D"}
            /\ meta.start = parse_date(call.arg.startTime).out
            /\ Len(meta.start) = 15
            /\ meta.polarizations = call.arg.transmitterReceiverPolarisation
            /\ ScenarioA(call.arg) =>
                   /\ meta.orbit = "A"
                   /\ meta.acquisition_mode = <<"I", "W">>
                   /\ meta.polarizations = <<"VV", "VH">>
                   /\ meta.start = Chars("20200101T000000")

C23_Witness ==
    /\ call # Idle
    /\ call.op = "SAFE.scanMetadata"
    /\ call.err = NoErr
    /\ ScenarioA(call.arg)
    /\ call.out[1].start = Chars("20200101T000000")

(* ======================================================================= *)
(* ID.outname_base: the name of the products of a scene                    *)
(* ======================================================================= *)

(* values of meta['sensor'] and meta['acquisition_mode']: the handlers     *)
(* take them from the text of the product's metadata                       *)
SensorValues ==
    {<<"S", "1">>, <<"S", "1", "A">>, <<"T", "S", "X", "1">>, <<"T", "S", "X", "1", "_", "H">>}

ModeValues ==
    {<<"I", "W">>, <<"S", "3", "0", "0">>, <<"H", "S", "3", "0">>,
     <<"H", "S", "3", "0", "0">>, <<"H", "_", "S", "3", "0", "0">>}

(* records of scenes: the four fields of the name, and the path and the    *)
(* product type as the fields the name does not use                        *)
NamedRecords ==
    [sensor : SensorValues, acquisition_mode : ModeValues, orbit : {"A", "D"},
     start : {2, 3}, scene : {Path("d1", "S1A_a.SAFE")}, product : {"GRD", "SLC"}]

(* outname_base of two records *)
OutnameBase ==
    /\ call = Idle
    /\ \E id1 \in NamedRecords, id2 \in NamedRecords :
           \E n1 \in {outname_base(id1)}, n2 \in {outname_base(id2)} :
               call' = [op |-> "outname_base", arg |-> <<id1, id2>>, err |-> NoErr,
                        out |-> <<n1, n2>>]
    /\ UNCHANGED <<rows, disk, conn, schema>>

NextOutname == OutnameBase \/ Return

SpecOutname == Init /\ [][NextOutname]_vars

(* x followed by as many '_' as it lacks to four characters *)
Padded(x) == x \o [i \in 1..(4 - Len(x)) |-> "_"]

SameNameFields(a, b) ==
    /\ a.sensor = b.sensor
    /\ a.acquisition_mode = b.acquisition_mode
    /\ a.orbit = b.orbit
    /\ a.start = b.start

(* C24: the output base name is the sensor padded with '_' to at least 4   *)
(* characters, the acquisition mode padded likewise, the orbit and the      *)
(* start time, joined by '_'; two records that agree on these four fields   *)
(* have the same name whatever their path and their other fields.           *)
C24_NameOfFourFields ==
    (call # Idle /\ call.op = "outname_base") =>
        /\ \A i \in 1..2 :
               call.out[i] = Padded(call.arg[i].sensor) \o <<"_">>
                                 \o Padded(call.arg[i].acquisition_mode)
                                 \o <<"_", call.arg[i].orbit, "_", Stamps[call.arg[i].start]>>
        /\ SameNameFields(call.arg[1], call.arg[2]) => call.out[1] = call.out[2]

C24_Witness ==
    /\ call # Idle
    /\ call.op = "outname_base"
    /\ SameNameFields(call.arg[1], call.arg[2])
    /\ call.arg[1].product # call.arg[2].product
    /\ Len(call.arg[1].sensor) < 4
    /\ call.out[1] = call.out[2]

(* the string does not end with '_' *)
NoTrailingUnderscore(x) == x # <<>> /\ x[Len(x)] # "_"

(* the string holds no '_' *)
NoUnderscore(x) == "_" \notin Elems(x)

(* C30 as stated: records whose sensor and mode do not end with '_' and    *)
(* that differ in sensor, mode, orbit or start have different names.       *)
C30_InjectiveWithoutTrailing ==
    (call # Idle /\ call.op = "outname_base") =>
        ((/\ \A i \in 1..2 : /\ NoTrailingUnderscore(call.arg[i].sensor)
                             /\ NoTrailingUnderscore(call.arg[i].acquisition_mode)
          /\ ~SameNameFields(call.arg[1], call.arg[2]))
            => call.out[1] # call.out[2])

(* C30: records whose sensor and mode hold no '_' and that differ in       *)
(* sensor, mode, orbit or start have different names, also when a mode is  *)
(* longer than 4 characters.                                               *)
C30_InjectiveWithoutUnderscore ==
    (call # Idle /\ call.op = "outname_base") =>
        ((/\ \A i \in 1..2 : /\ NoUnderscore(call.arg[i].sensor)
                             /\ NoUnderscore(call.arg[i].acquisition_mode)
          /\ ~SameNameFields(call.arg[1], call.arg[2]))
            => call.out[1] # call.out[2])

C30_Witness ==
    /\ call # Idle
    /\ call.op = "outname_base"
    /\ call.arg[1].acquisition_mode = <<"H", "S", "3", "0", "0">>
    /\ call.arg[2].acquisition_mode = <<"H", "S", "3", "0">>
    /\ call.arg[1].sensor = call.arg[2].sensor
    /\ NoUnderscore(call.arg[1].sensor)
    /\ call.arg[1].orbit = call.arg[2].orbit
    /\ call.arg[1].start = call.arg[2].start
    /\ call.out[1] # call.out[2]

(* ======================================================================= *)
(* CEOS_PSR.scanMetadata: the projection of the scene                      *)
(* ======================================================================= *)

(* the fields of the map projection record that the projection is made of: *)
(* the projection descriptor, the UTM zone, the false northing, the centre  *)
(* of the projection                                                        *)
MapProjectionRecords ==
    [projdesc : {"UTM-PROJECTION", "UPS-PROJECTION", "MER-PROJECTION", "LCC-PROJECTION", ""},
     nZone : {32, 33, 54}, dfFalseNorthing : {0, 10000000},
     dfCenterLon : {0, 135}, dfCenterLat : {-90, 35}]

(* float(s[key]): a string takes a slice s[a:b]; for the pair of integers  *)
(* s[a, b] it raises TypeError                                             *)
Subscript(key, value) ==
    IF key = "slice" THEN [err |-> NoErr, value |-> value]
    ELSE [err |-> Err("TypeError", "string indices must be integers, not tuple")]

(* lines 752 to 808: meta['projection'] for mpd_n map projection records *)
projection(mpd_n, m) ==
    IF mpd_n > 0
    THEN CASE m.projdesc = "UTM-PROJECTION" ->
                  LET northing == Subscript("slice", m.dfFalseNorthing)
                  IN  [err |-> NoErr,
                       out |-> [kind |-> "EPSG",
                                epsg |-> IF northing.value > 0 THEN 32700 + m.nZone
                                         ELSE 32600 + m.nZone]]
           [] m.projdesc = "UPS-PROJECTION" ->
                  LET lon == Subscript("pair", m.dfCenterLon)
                      lat == Subscript("pair", m.dfCenterLat)
                  IN  IF lon.err # NoErr THEN [err |-> lon.err]
                      ELSE IF lat.err # NoErr THEN [err |-> lat.err]
                      ELSE [err |-> NoErr,
                            out |-> [kind |-> "PS", lon |-> lon.value, lat |-> lat.value]]
           [] m.projdesc = "MER-PROJECTION" ->
                  LET lon == Subscript("pair", m.dfCenterLon)
                      lat == Subscript("pair", m.dfCenterLat)
                  IN  IF lon.err # NoErr THEN [err |-> lon.err]
                      ELSE IF lat.err # NoErr THEN [err |-> lat.err]
                      ELSE [err |-> NoErr,
                            out |-> [kind |-> "Mercator", lon |-> lon.value, lat |-> lat.value]]
           [] m.projdesc = "LCC-PROJECTION" ->
                  LET lon == Subscript("pair", m.dfCenterLon)
                      lat == Subscript("pair", m.dfCenterLat)
                  IN  IF lon.err # NoErr THEN [err |-> lon.err]
                      ELSE IF lat.err # NoErr THEN [err |-> lat.err]
                      ELSE [err |-> NoErr,
                            out |-> [kind |-> "LCC", lon |-> lon.value, lat |-> lat.value]]
           [] OTHER -> [err |-> NoErr, out |-> [kind |-> "GEOGCS", name |-> "WGS 84"]]
    ELSE [err |-> NoErr, out |-> [kind |-> "GEOGCS", name |-> "WGS 84"]]

ScanProjection ==
    /\ call = Idle
    /\ \E mpd_n \in {0, 1}, m \in MapProjectionRecords :
           \E r \in {projection(mpd_n, m)} :
               call' = [op |-> "projection", mpd_n |-> mpd_n, arg |-> m, err |-> r.err,
                        out |-> IF r.err = NoErr THEN <<r.out>> ELSE <<>>]
    /\ UNCHANGED <<rows, disk, conn, schema>>

SpecProjection == Init /\ [][ScanProjection \/ Return]_vars

(* the kind of coordinate reference system of a projection descriptor *)
Family(projdesc) ==
    CASE projdesc = "UTM-PROJECTION" -> "EPSG"
      [] projdesc = "UPS-PROJECTION" -> "PS"
      [] projdesc = "MER-PROJECTION" -> "Mercator"
      [] projdesc = "LCC-PROJECTION" -> "LCC"
      [] OTHER -> "GEOGCS"

(* C25: with a map projection record the parser takes the projection       *)
(* family from the descriptor, UTM, UPS, MER or LCC, and produces a         *)
(* coordinate reference system for each of them; without a map projection   *)
(* record the projection is geographic WGS 84.                              *)
C25_ProjectionFamilies ==
    (call # Idle /\ call.op = "projection") =>
        /\ (call.mpd_n > 0 /\ call.arg.projdesc # "") =>
               /\ call.err = NoErr
               /\ call.out[1].kind = Family(call.arg.projdesc)
        /\ call.mpd_n = 0 =>
               /\ call.err = NoErr
               /\ call.out[1] = [kind |-> "GEOGCS", name |-> "WGS 84"]

(* ----------------------------------------------------------------------- *)
(* Claims about the polarization flags                                     *)
(* ----------------------------------------------------------------------- *)

(* the polarization code x names the channel, whatever its case *)
IsChannel(x, channel) ==
    CASE channel = "hh" -> x \in {"HH", "Hh", "hH", "hh"}
      [] channel = "vv" -> x \in {"VV", "Vv", "vV", "vv"}
      [] channel = "hv" -> x \in {"HV", "Hv", "hV", "hv"}
      [] channel = "vh" -> x \in {"VH", "Vh", "vH", "vh"}

(* the value of the flag of a channel in a row *)
FlagOf(row, channel) ==
    CASE channel = "hh" -> row.hh
      [] channel = "vv" -> row.vv
      [] channel = "hv" -> row.hv
      [] channel = "vh" -> row.vh

(* C26: in every row of the catalog each of the flags hh, vv, hv, vh is 0  *)
(* or 1, and it is 1 exactly when the polarizations of the scene the row   *)
(* was made from contain the channel, compared without regard to case.     *)
C26_FlagsMatchPolarizations ==
    \A i \in 1..Len(rows) :
        \A channel \in {"hh", "vv", "hv", "vh"} :
            /\ FlagOf(rows[i], channel) \in {0, 1}
            /\ FlagOf(rows[i], channel) = 1 <=>
                   \E x \in Elems(FS(rows[i].scene).polarizations) : IsChannel(x, channel)

C26_Witness ==
    /\ call # Idle
    /\ call.op = "insert"
    /\ call.err = NoErr
    /\ \E i \in 1..Len(rows) :
        /\ rows[i].vv = 1
        /\ rows[i].vh = 1
        /\ rows[i].hh = 0
        /\ rows[i].hv = 0

(* ----------------------------------------------------------------------- *)
(* Claims about a select without criteria                                  *)
(* ----------------------------------------------------------------------- *)

(* no argument of the select is in effect: no geometry, no date and no     *)
(* polarization is given or those given are ignored, and every column      *)
(* argument names an unregistered column or has a value of another type    *)
NoEffectiveFilter(a) ==
    /\ a.vectorobject.kind # "vector"
    /\ a.mindate.kind # "date"
    /\ a.maxdate.kind # "date"
    /\ \A k \in 1..Len(a.polarizations) : a.polarizations[k] \notin {"HH", "VV", "HV", "VH"}
    /\ \A k \in 1..Len(a.args) :
           a.args[k].key \notin ColNames \/ a.args[k].val.kind \notin {"scalar", "list"}
    /\ a.processdir = None

(* C28: a select without an argument in effect completes without error     *)
(* and returns every registered scene.                                      *)
C28_UnfilteredSelectsAll ==
    (call # Idle /\ call.op = "select" /\ NoEffectiveFilter(call.arg)) =>
        /\ call.err = NoErr
        /\ Elems(call.out) = {rows[i].scene : i \in 1..Len(rows)}

(* ======================================================================= *)
(* Archive.insert of a list and of its elements                            *)
(* ======================================================================= *)

(* scenes offered in lists: two Sentinel-1 scenes, two PALSAR scenes in    *)
(* folders of the same name, and a PALSAR scene folder without IMG files   *)
BatchPaths == {Path("d1", "S1A_a.SAFE"), Path("d1", "S1A_b.SAFE"), Path("d2", "alos"),
               Path("d3", "alos"), Path("d1", "alos")}

BatchArgs == {Str(p) : p \in BatchPaths}
                 \cup {List(l) : l \in ListsUpTo({Str(p) : p \in BatchPaths}, MaxList)}

InsertBatch == InsertFrom(BatchArgs)

SpecBatch == Init /\ [][InsertBatch \/ Return]_vars

(* the catalog after insert(path) for the paths of the list from i on, one *)
(* call after the other; an error that a call raises ends the sequence     *)
RECURSIVE OneByOne(_, _, _)
OneByOne(db, l, i) ==
    IF i > Len(l) THEN db
    ELSE CHOOSE out \in
           {IF r.err # NoErr THEN [rows |-> r.rows, disk |-> r.disk]
            ELSE OneByOne([rows |-> r.rows, disk |-> r.disk], l, i + 1) :
                r \in {insert(db, l[i])}} : TRUE

(* every path of the list is identified *)
AllIdentifiable(l) == \A i \in 1..Len(l) : identify(l[i].path).err = NoErr

(* no path of the list has the file name of a registered scene of another  *)
(* acquisition                                                             *)
NamesakesRegistered(tbl, l) ==
    \A i \in 1..Len(l) :
        basename(l[i].path) \in {basename(tbl[k].scene) : k \in 1..Len(tbl)}
            => outname_base(identify(l[i].path).id)
                   \in {tbl[k].outname_base : k \in 1..Len(tbl)}

=============================================================================
